---- MODULE Spec2Model ----
(***************************************************************************)
(* bus_factor: the two public operations of GithubApi                      *)
(* (src/src/github_api.rs), get_repos and get_repos_bus_factor, as state   *)
(* machines over the transport GithubClient::get_response_body             *)
(* (src/src/github_client.rs).                                             *)
(*                                                                         *)
(* Both operations build a vector of futures, hand it to                   *)
(* futures::future::join_all and post-process the outputs.  join_all polls *)
(* the futures in vector order; the first poll of a future runs it up to   *)
(* its first await (the request is issued), later polls consume the reply. *)
(* The output of future i is stored in slot i whatever the order in which  *)
(* the replies arrive.  A panic inside a future or in the post-processing  *)
(* unwinds through the operation: nothing is returned.                     *)
(*                                                                         *)
(* Numbers are exact: contribution counts stay far below 2^53, so the f64  *)
(* quotient leader/total is modelled as the rational it rounds.            *)
(***************************************************************************)
EXTENDS Integers, Sequences, FiniteSets, TLC

VARIABLES
    call,        \* the public method being run: "get_repos" or "get_repos_bus_factor"
    query,       \* its query argument (RepoQuery or BusFactorQuery)
    repos,       \* get_repos_bus_factor's `repos.items`
    upstream,    \* the Contributions payloads the server can serve in this run
    pc,          \* position in the async fn: "join_all", "last_page", "returned", "panicked"
    polled,      \* how many futures of `futures` have had their first poll
    responses,   \* join_all's output slots: <<>> while pending, <<Result>> once ready
    result,      \* get_repos' local `result.items`
    ret,         \* the value the operation returned: <<>> until it returns
    requests,    \* the endpoints handed to the transport, in the order issued
    replies,     \* per request, what the server answered: <<>> until it answers
    overtaken    \* history: some answer came while an earlier request was unanswered

vars == <<call, query, repos, upstream, pc, polled, responses, result, ret, requests, replies,
          overtaken>>

-----------------------------------------------------------------------------
(* Bounds of the model *)

\* get_repos: query.count ranges over p * PAGE_LIMIT + r, p <= MaxFullPages, r <= MaxRemainder
MaxFullPages == 2

MaxRemainder == 2

\* get_repos_bus_factor: at most MaxRepos input repositories
MaxRepos == 3

\* the single share calculation: lists of at most MaxContribs contributors,
\* each with at most MaxCount contributions
MaxContribs == 3

MaxCount == 2

\* the wide run of get_repos_bus_factor: at most WideRepos input repositories
WideRepos == 6

-----------------------------------------------------------------------------
(* Values *)

PAGE_LIMIT == 100

REPO_ENDPONT == "https://api.github.com/search/repositories"

Ok(v) == [ok |-> TRUE, val |-> v]

Err(e) == [ok |-> FALSE, err |-> e]

\* api_errors.rs: both errors carry one string, `details`
ResponseError(msg) == [type |-> "ResponseError", details |-> msg]

InvalidQueryError(msg) == [type |-> "InvalidQueryError", details |-> msg]

\* an error of the reqwest crate (send, body read or JSON decode), passed on by `?`
ReqwestError(what) == [type |-> "reqwest::Error", details |-> what]

Min(S) == CHOOSE x \in S : \A y \in S : x <= y

-----------------------------------------------------------------------------
(* The server's answer to one GET, and the transport's reading of it *)

\* sent: send() succeeded; status: the HTTP status; readable: the body could be
\* read; text: the body as text; json: <<payload>> when the body deserializes
\* into the requested type T, <<>> when it does not.
Reply(sent, status, readable, text, json) ==
    [sent |-> sent, status |-> status, readable |-> readable, text |-> text, json |-> json]

SendFailure == Reply(FALSE, 0, FALSE, "", <<>>)

StatusReply(status, text) == Reply(TRUE, status, TRUE, text, <<>>)

JsonReply(payload) == Reply(TRUE, 200, TRUE, "", <<payload>>)

\* error_for_status_ref: 4xx and 5xx are errors
IsErrorStatus(status) == status >= 400 /\ status <= 599

\* variant: the body is deserialized first and the status is looked at only
\* when that fails
get_response_body_unchecked(reply) ==
    IF ~reply.sent THEN Err(ReqwestError("send"))
    ELSE IF reply.readable /\ reply.json # <<>> THEN Ok(reply.json[1])
    ELSE IF IsErrorStatus(reply.status) /\ reply.readable THEN Err(ResponseError(reply.text))
    ELSE Err(ReqwestError("decode"))

get_response_body(reply) ==
    IF ~reply.sent THEN Err(ReqwestError("send"))
    ELSE IF IsErrorStatus(reply.status)
         THEN IF ~reply.readable THEN Err(ReqwestError("body"))
              ELSE Err(ResponseError(reply.text))
         ELSE IF ~reply.readable \/ reply.json = <<>> THEN Err(ReqwestError("decode"))
              ELSE Ok(reply.json[1])

\* The error answers used in the runs: a failed send and two error statuses
\* with different bodies.
ErrorReplies == {SendFailure, StatusReply(403, "rate limit"), StatusReply(422, "invalid")}

-----------------------------------------------------------------------------
(* get_repos *)

\* variant: a started page counts as a full page
get_pages_rounded_up(count) ==
    <<count \div PAGE_LIMIT + (IF count % PAGE_LIMIT > 0 THEN 1 ELSE 0), count % PAGE_LIMIT>>

get_pages(count) == <<count \div PAGE_LIMIT, count % PAGE_LIMIT>>

full_pages == get_pages(query.count)[1]

last_page == get_pages(query.count)[2]

\* variant: pages numbered from 0
get_repos_from_page_from_zero(language, page, per_page) ==
    [endpoint |-> REPO_ENDPONT, language |-> language, per_page |-> per_page, page |-> page - 1]

\* the endpoint get_repos_from_page formats
get_repos_from_page(language, page, per_page) ==
    [endpoint |-> REPO_ENDPONT, language |-> language, per_page |-> per_page, page |-> page]

\* variant: the last page is asked for with per_page = last_page whatever the
\* number of full pages
last_page_elements_exact == last_page

\* variant: the last page is asked for with per_page = PAGE_LIMIT whatever the
\* number of full pages
last_page_elements_limit == PAGE_LIMIT

last_page_elements == IF full_pages = 0 THEN last_page ELSE PAGE_LIMIT

\* The search results are ranked; page `page` of size `per_page` starts at rank
\* (page - 1) * per_page + 1.  A repository is identified by its rank.
PageItems(page, per_page, n) == [k \in 1..n |-> (page - 1) * per_page + k]

\* How many items the server may put on a page: any short length up to
\* MaxRemainder, one less than asked, or all that was asked.
PageSizes(per_page) == {n \in (0..MaxRemainder) \cup {per_page - 1, per_page} : n >= 0 /\ n <= per_page}

Languages == {"rust", "asdf"}

\* "asdf" is no language: the search endpoint answers 422 (tests::invalid_language)
RepoReplies(e) ==
    IF e.language = "asdf" THEN {SendFailure, StatusReply(422, "invalid")}
    ELSE ErrorReplies \cup {JsonReply(PageItems(e.page, e.per_page, n)) : n \in PageSizes(e.per_page)}

Counts == {p * PAGE_LIMIT + r : p \in 0..MaxFullPages, r \in 0..MaxRemainder}

Empty(n) == [i \in 1..n |-> <<>>]

\* variant: the GET is sent a second time
SendTwice(log, endpoint) == Append(Append(log, endpoint), endpoint)

\* GithubClient::get_response_body sends one GET for the endpoint
Send(log, endpoint) == Append(log, endpoint)

\* answering request i overtakes an earlier request that is still unanswered
Overtakes(i) == \E j \in 1..(i - 1) : replies[j] = <<>>

Ready(i) == responses[i] # <<>>

AllReady == \A i \in 1..Len(responses) : Ready(i)

\* variant: an answer is taken as soon as its own request is out
SomePolled == polled >= 1

\* join_all polls its futures in order, so every request is out before the
\* answer to any of them is taken
AllPolled == polled = Len(responses)

\* variant: outputs are kept in the order in which the futures finish
StoreInArrivalOrder(slots, i, out) ==
    [slots EXCEPT ![Min({j \in 1..Len(slots) : slots[j] = <<>>})] = <<out>>]

\* join_all keeps the output of future i in slot i
Store(slots, i, out) == [slots EXCEPT ![i] = <<out>>]

\* variant: the last slot holding an error
LastErr(slots) ==
    LET bad == {i \in 1..Len(slots) : ~slots[i][1].ok}
    IN IF bad = {} THEN 0 ELSE CHOOSE x \in bad : \A y \in bad : x >= y

\* the first slot holding an error, 0 when there is none: where `res?` returns
FirstErr(slots) ==
    LET bad == {i \in 1..Len(slots) : ~slots[i][1].ok}
    IN IF bad = {} THEN 0 ELSE Min(bad)

RECURSIVE ExtendAll(_, _)
\* result.items.extend_from_slice(&repos.items) for the first n slots, in slot order
ExtendAll(slots, n) ==
    IF n = 0 THEN <<>> ELSE ExtendAll(slots, n - 1) \o slots[n][1].val

RECURSIVE ExtendOk(_, _)
ExtendOk(slots, n) ==
    IF n = 0 THEN <<>>
    ELSE ExtendOk(slots, n - 1) \o (IF slots[n][1].ok THEN slots[n][1].val ELSE <<>>)

\* variant: a failed page is skipped (`if let Ok(repos) = res`)
collect_pages_lenient(slots) == Ok(ExtendOk(slots, Len(slots)))

\* `for res in responses { let repos = res?; result.items.extend_from_slice(..) }`
collect_pages(slots) ==
    IF FirstErr(slots) # 0 THEN Err(slots[FirstErr(slots)][1].err)
    ELSE Ok(ExtendAll(slots, Len(slots)))

Panic(msg) == [panic |-> msg]

IsPanic(out) == "panic" \in DOMAIN out

\* variant: a short last page is taken as it is (`.iter().take(last_page)`)
take_last_page_short(acc, res, n) ==
    IF ~res.ok THEN Err(res.err)
    ELSE Ok(acc \o SubSeq(res.val, 1, Min({n, Len(res.val)})))

\* the last page's `.await?` and `&res.items[0..last_page as usize]`, appended to acc
take_last_page(acc, res, n) ==
    IF ~res.ok THEN Err(res.err)
    ELSE IF Len(res.val) < n THEN Panic("range end index out of range: res.items[0..last_page]")
    ELSE Ok(acc \o SubSeq(res.val, 1, n))

InitRepos ==
    /\ call = "get_repos"
    /\ query \in [language : Languages, count : Counts]
    /\ repos = <<>>
    /\ upstream = {}
    /\ pc = "join_all"
    /\ polled = 0
    /\ responses = Empty(get_pages(query.count)[1])
    /\ result = <<>>
    /\ ret = <<>>
    /\ requests = <<>>
    /\ replies = <<>>
    /\ overtaken = FALSE

\* for page in 1..=full_pages: the first poll of the future of page polled + 1
PollPage ==
    /\ call = "get_repos" /\ pc = "join_all"
    /\ polled < full_pages
    /\ polled' = polled + 1
    /\ requests' = Send(requests, get_repos_from_page(query.language, polled + 1, PAGE_LIMIT))
    /\ replies' = Append(replies, <<>>)
    /\ UNCHANGED <<call, query, repos, upstream, pc, responses, result, ret, overtaken>>

\* variant of PageReply: the pages are answered one after the other, in page
\* order
PageReplyInOrder(p) ==
    /\ call = "get_repos" /\ pc = "join_all"
    /\ AllPolled
    /\ p \in 1..Len(requests) /\ replies[p] = <<>> /\ ~Overtakes(p)
    /\ \E reply \in RepoReplies(requests[p]) :
          /\ replies' = [replies EXCEPT ![p] = <<reply>>]
          /\ responses' = Store(responses, p, get_response_body(reply))
    /\ overtaken' = (overtaken \/ Overtakes(p))
    /\ UNCHANGED <<call, query, repos, upstream, pc, polled, result, ret, requests>>

\* the server answers page p; the future of page p becomes ready.  join_all's
\* first poll goes through every future before any answer is consumed.
PageReply(p) ==
    /\ call = "get_repos" /\ pc = "join_all"
    /\ AllPolled
    /\ p \in 1..Len(requests) /\ replies[p] = <<>>
    /\ \E reply \in RepoReplies(requests[p]) :
          /\ replies' = [replies EXCEPT ![p] = <<reply>>]
          /\ responses' = Store(responses, p, get_response_body(reply))
    /\ overtaken' = (overtaken \/ Overtakes(p))
    /\ UNCHANGED <<call, query, repos, upstream, pc, polled, result, ret, requests>>

\* variant: the page after the full pages is always asked for
AlwaysLastPage == TRUE

\* if last_page > 0
NeedsLastPage == last_page > 0

\* join_all is ready: the loop over responses, then the request of the last page
JoinPages ==
    /\ call = "get_repos" /\ pc = "join_all"
    /\ polled = full_pages /\ AllReady
    /\ LET pages == collect_pages(responses)
       IN IF ~pages.ok
          THEN /\ ret' = <<pages>>
               /\ pc' = "returned"
               /\ UNCHANGED <<result, requests, replies>>
          ELSE IF NeedsLastPage
          THEN /\ result' = pages.val
               /\ requests' = Send(requests,
                      get_repos_from_page(query.language, full_pages + 1, last_page_elements))
               /\ replies' = Append(replies, <<>>)
               /\ pc' = "last_page"
               /\ UNCHANGED ret
          ELSE /\ result' = pages.val
               /\ ret' = <<Ok(pages.val)>>
               /\ pc' = "returned"
               /\ UNCHANGED <<requests, replies>>
    /\ UNCHANGED <<call, query, repos, upstream, polled, responses, overtaken>>

\* the server answers the last page; get_repos runs to its end
LastPageReply ==
    /\ call = "get_repos" /\ pc = "last_page"
    /\ replies[Len(requests)] = <<>>
    /\ \E reply \in RepoReplies(requests[Len(requests)]) :
          LET out == take_last_page(result, get_response_body(reply), last_page)
          IN /\ replies' = [replies EXCEPT ![Len(requests)] = <<reply>>]
             /\ IF IsPanic(out)
                THEN pc' = "panicked" /\ UNCHANGED <<result, ret>>
                ELSE /\ pc' = "returned"
                     /\ ret' = <<out>>
                     /\ result' = IF out.ok THEN out.val ELSE result
    /\ UNCHANGED <<call, query, repos, upstream, polled, responses, requests, overtaken>>

NextRepos ==
    \/ PollPage
    \/ \E p \in 1..Len(responses) : PageReply(p)
    \/ JoinPages
    \/ LastPageReply

SpecRepos == InitRepos /\ [][NextRepos]_vars

-----------------------------------------------------------------------------
(* get_repos_bus_factor and calculate_repo_share *)

\* f64 values as exact fractions <<numerator, denominator>> in lowest terms;
\* 0/0 is NaN and x/0 (x > 0) is +infinity, as `as f64 / as f64` gives them
NaN == <<0, 0>>

Infinity == <<1, 0>>

RECURSIVE Gcd(_, _)
Gcd(a, b) == IF b = 0 THEN a ELSE Gcd(b, a % b)

F64Div(a, b) ==
    IF b = 0 THEN (IF a = 0 THEN NaN ELSE Infinity)
    ELSE <<a \div Gcd(a, b), b \div Gcd(a, b)>>

\* variant: x > y
F64Gt(x, y) == x # NaN /\ y # NaN /\ x[1] * y[2] > y[1] * x[2]

\* x >= y on f64: false as soon as one side is NaN
F64Ge(x, y) == x # NaN /\ y # NaN /\ x[1] * y[2] >= y[1] * x[2]

Logins == <<"user1", "user2", "user3", "user4", "user5", "user6">>

\* the Contributions payload whose k-th contributor has counts[k] contributions
Contributions(counts) ==
    [k \in 1..Len(counts) |-> [contributions |-> counts[k], login |-> Logins[k]]]

SeqsUpTo(S, n) == UNION {[1..k -> S] : k \in 0..n}

\* the payload of the test get_repo_bus_factor_works: 15, 3 and 1 contributions
ExampleCounts == <<15, 3, 1>>

\* every contributor list within the bounds, and the example
AllContributions == {Contributions(c) : c \in SeqsUpTo(0..MaxCount, MaxContribs) \cup {ExampleCounts}}

\* a few lists: none, one contributor without contributions, shares 1/2 and 3/4
SomeContributions == {Contributions(c) : c \in {<<>>, <<0>>, <<1, 1>>, <<3, 1>>}}

RepoPool ==
    { [contributors_url |-> "https://api.github.com/repos/996icu/996.ICU/contributors",
       name |-> "996.ICU", stargazers_count |-> 260209],
      [contributors_url |-> "https://api.github.com/repos/denoland/deno/contributors",
       name |-> "deno", stargazers_count |-> 79306] }

\* bus_threshold: 0.5 and the 0.75 main passes
Thresholds == {<<1, 2>>, <<3, 4>>}

\* the endpoint calculate_repo_share formats
ContributorsEndpoint(contributors_url, users_to_consider) ==
    [endpoint |-> contributors_url, per_page |-> users_to_consider]

\* the server serves at most per_page contributors
ContributorReplies(e) ==
    ErrorReplies \cup {JsonReply(c) : c \in {u \in upstream : Len(u) <= e.per_page}}

RECURSIVE total_contributions(_)
\* contributions.iter().fold(0, |acc, contr| acc + contr.contributions)
total_contributions(contributions) ==
    IF contributions = <<>> THEN 0
    ELSE total_contributions(SubSeq(contributions, 1, Len(contributions) - 1))
         + contributions[Len(contributions)].contributions

\* variant: no validation
NeverReject(users_to_consider) == FALSE

\* calculate_repo_share up to its await: the validation of users_to_consider
RejectQuery(users_to_consider) == users_to_consider = 0

\* variant: the leader is the contributor with the most contributions
calculate_repo_share_sorted(res) ==
    IF ~res.ok THEN Err(res.err)
    ELSE IF res.val = <<>> THEN Panic("index out of bounds: contributions[0]")
    ELSE LET top == CHOOSE k \in 1..Len(res.val) :
                        \A j \in 1..Len(res.val) :
                            res.val[k].contributions >= res.val[j].contributions
         IN Ok([user_name |-> res.val[top].login,
                bus_factor |-> F64Div(res.val[top].contributions, total_contributions(res.val))])

\* calculate_repo_share after its await, on the transport's result
calculate_repo_share(res) ==
    IF ~res.ok THEN Err(res.err)
    ELSE IF res.val = <<>> THEN Panic("index out of bounds: contributions[0]")
    ELSE Ok([user_name |-> res.val[1].login,
             bus_factor |-> F64Div(res.val[1].contributions, total_contributions(res.val))])

RECURSIVE Significant(_, _, _, _)
\* the loop over responses.into_iter().enumerate(), for the first n slots
Significant(slots, items, threshold, n) ==
    IF n = 0 THEN <<>>
    ELSE LET share == slots[n][1].val
             before == Significant(slots, items, threshold, n - 1)
         IN IF F64Ge(share.bus_factor, threshold)
            THEN Append(before, [repo_name |-> items[n].name,
                                 stars |-> items[n].stargazers_count,
                                 leader |-> share])
            ELSE before

RECURSIVE SignificantByPosition(_, _, _, _)
SignificantByPosition(slots, items, threshold, n) ==
    IF n = 0 THEN <<>>
    ELSE LET share == slots[n][1].val
             before == SignificantByPosition(slots, items, threshold, n - 1)
         IN IF F64Ge(share.bus_factor, threshold)
            THEN Append(before, [repo_name |-> items[Len(before) + 1].name,
                                 stars |-> items[Len(before) + 1].stargazers_count,
                                 leader |-> share])
            ELSE before

\* variant: the repository is looked up at the output position (`repos.items[res.len()]`)
aggregate_by_position(slots, items, threshold) ==
    IF FirstErr(slots) # 0 THEN Err(slots[FirstErr(slots)][1].err)
    ELSE Ok(SignificantByPosition(slots, items, threshold, Len(slots)))

\* `let share = item?;` at the first error, else the repositories pushed to res
aggregate(slots, items, threshold) ==
    IF FirstErr(slots) # 0 THEN Err(slots[FirstErr(slots)][1].err)
    ELSE Ok(Significant(slots, items, threshold, Len(slots)))

BusStart(items, threshold, users, served) ==
    /\ call = "get_repos_bus_factor"
    /\ repos = items
    /\ query = [bus_threshold |-> threshold, users_to_consider |-> users]
    /\ upstream = served
    /\ pc = "join_all"
    /\ polled = 0
    /\ responses = Empty(Len(items))
    /\ result = <<>>
    /\ ret = <<>>
    /\ requests = <<>>
    /\ replies = <<>>
    /\ overtaken = FALSE

\* any repositories, any threshold; users_to_consider 0, 1 or the 25 main passes
InitBus ==
    \E items \in SeqsUpTo(RepoPool, MaxRepos), threshold \in Thresholds, users \in {0, 1, 25} :
        BusStart(items, threshold, users, SomeContributions)

\* for item in &repos.items: the first poll of the future of item polled + 1
PollShare ==
    /\ call = "get_repos_bus_factor" /\ pc = "join_all"
    /\ polled < Len(repos)
    /\ polled' = polled + 1
    /\ IF RejectQuery(query.users_to_consider)
       THEN /\ responses' = Store(responses, polled + 1, Err(InvalidQueryError(
                   "Number of users to consider must be greater than 0.")))
            /\ UNCHANGED <<requests, replies>>
       ELSE /\ requests' = Send(requests, ContributorsEndpoint(
                   repos[polled + 1].contributors_url, query.users_to_consider))
            /\ replies' = Append(replies, <<>>)
            /\ UNCHANGED responses
    /\ UNCHANGED <<call, query, repos, upstream, pc, result, ret, overtaken>>

\* the server answers the request of item i; its future runs to its end (after
\* join_all's first poll went through every future)
ShareReply(i) ==
    /\ call = "get_repos_bus_factor" /\ pc = "join_all"
    /\ AllPolled
    /\ i \in 1..Len(requests) /\ replies[i] = <<>>
    /\ \E reply \in ContributorReplies(requests[i]) :
          LET out == calculate_repo_share(get_response_body(reply))
          IN /\ replies' = [replies EXCEPT ![i] = <<reply>>]
             /\ IF IsPanic(out)
                THEN pc' = "panicked" /\ UNCHANGED responses
                ELSE responses' = Store(responses, i, out) /\ UNCHANGED pc
    /\ overtaken' = (overtaken \/ Overtakes(i))
    /\ UNCHANGED <<call, query, repos, upstream, polled, result, ret, requests>>

\* variant of JoinShares: the join gives up at the first failed future, as
\* try_join_all does, and returns its error
JoinSharesFailFast ==
    /\ call = "get_repos_bus_factor" /\ pc = "join_all"
    /\ polled = Len(repos)
    /\ \/ AllReady /\ ret' = <<aggregate(responses, repos, query.bus_threshold)>>
       \/ \E i \in 1..Len(responses) :
             /\ Ready(i) /\ ~responses[i][1].ok
             /\ ret' = <<Err(responses[i][1].err)>>
    /\ pc' = "returned"
    /\ UNCHANGED <<call, query, repos, upstream, polled, responses, result, requests, replies,
                   overtaken>>

\* variant of JoinShares: users_to_consider is checked once for the query,
\* before the outcomes are looked at
JoinSharesQueryChecked ==
    /\ call = "get_repos_bus_factor" /\ pc = "join_all"
    /\ polled = Len(repos) /\ AllReady
    /\ ret' = IF RejectQuery(query.users_to_consider)
              THEN <<Err(InvalidQueryError("Number of users to consider must be greater than 0."))>>
              ELSE <<aggregate(responses, repos, query.bus_threshold)>>
    /\ pc' = "returned"
    /\ UNCHANGED <<call, query, repos, upstream, polled, responses, result, requests, replies,
                   overtaken>>

\* join_all is ready: `for (idx, item) in responses.into_iter().enumerate()`
JoinShares ==
    /\ call = "get_repos_bus_factor" /\ pc = "join_all"
    /\ polled = Len(repos) /\ AllReady
    /\ ret' = <<aggregate(responses, repos, query.bus_threshold)>>
    /\ pc' = "returned"
    /\ UNCHANGED <<call, query, repos, upstream, polled, responses, result, requests, replies,
                   overtaken>>

NextBus ==
    \/ PollShare
    \/ \E i \in 1..Len(responses) : ShareReply(i)
    \/ JoinShares

SpecBus == InitBus /\ [][NextBus]_vars

\* one share calculation over every contributor list within the bounds
InitShare ==
    \E items \in [1..1 -> RepoPool], threshold \in Thresholds, users \in 0..MaxContribs :
        BusStart(items, threshold, users, AllContributions)

SpecShare == InitShare /\ [][NextBus]_vars

\* many repositories, one contributor list
InitWide ==
    \E n \in 0..WideRepos :
        BusStart([i \in 1..n |-> CHOOSE r \in RepoPool : r.name = "deno"], <<3, 4>>, 25,
                 {Contributions(<<3, 1>>)})

SpecWide == InitWide /\ [][NextBus]_vars

-----------------------------------------------------------------------------
(* get_pages on its own *)

\* the largest count tried in every case: counts 0..MaxPagesCount
MaxPagesCount == 300

\* the counts of tests::test_get_pages, and large ones up to i32::MAX
TestCounts == {50, 101, 2531, 65535, 65536, 2147483599, 2147483600, 2147483647}

InitPages ==
    /\ call = "get_pages"
    /\ query \in [count : (0..MaxPagesCount) \cup TestCounts]
    /\ repos = <<>>
    /\ upstream = {}
    /\ pc = "start"
    /\ polled = 0
    /\ responses = <<>>
    /\ result = <<>>
    /\ ret = <<>>
    /\ requests = <<>>
    /\ replies = <<>>
    /\ overtaken = FALSE

\* let (full_pages, last_page) = GithubApi::get_pages(query.count)
GetPages ==
    /\ call = "get_pages" /\ pc = "start"
    /\ ret' = <<get_pages(query.count)>>
    /\ pc' = "returned"
    /\ UNCHANGED <<call, query, repos, upstream, polled, responses, result, requests, replies,
                   overtaken>>

NextPages == GetPages

SpecPages == InitPages /\ [][NextPages]_vars

-----------------------------------------------------------------------------
(* get_response_body on its own *)

\* statuses on both sides of every class boundary, and the ones GitHub uses
ClientStatuses == {100, 199, 200, 204, 299, 300, 304, 399, 400, 403, 404, 422, 499, 500, 503,
                   599, 600}

BodyTexts == {"", "{\"message\":\"API rate limit exceeded\"}"}

\* the body does not deserialize into T, or it does: an empty or a one-item list
BodyPayloads == {<<>>, <<<<>>>>, <<Contributions(<<1>>)>>}

\* every answer to one GET: no answer at all, or a status with a body that can
\* or cannot be read
AllReplies ==
    {SendFailure} \cup
    {Reply(TRUE, status, readable, text, json) :
        status \in ClientStatuses, readable \in BOOLEAN, text \in BodyTexts, json \in BodyPayloads}

InitClient ==
    /\ call = "get_response_body"
    /\ query = [endpoint |-> REPO_ENDPONT]
    /\ repos = <<>>
    /\ upstream = {}
    /\ pc = "start"
    /\ polled = 0
    /\ responses = <<>>
    /\ result = <<>>
    /\ ret = <<>>
    /\ requests = <<>>
    /\ replies = <<>>
    /\ overtaken = FALSE

\* self.inner.get(endpoint)...send()
ClientSend ==
    /\ call = "get_response_body" /\ pc = "start"
    /\ requests' = Send(requests, [endpoint |-> query.endpoint])
    /\ replies' = Append(replies, <<>>)
    /\ pc' = "send"
    /\ UNCHANGED <<call, query, repos, upstream, polled, responses, result, ret, overtaken>>

\* the answer arrives; get_response_body runs to its end
ClientReply ==
    /\ call = "get_response_body" /\ pc = "send"
    /\ \E reply \in AllReplies :
          /\ replies' = [replies EXCEPT ![1] = <<reply>>]
          /\ ret' = <<get_response_body(reply)>>
    /\ pc' = "returned"
    /\ UNCHANGED <<call, query, repos, upstream, polled, responses, result, requests, overtaken>>

NextClient == ClientSend \/ ClientReply

SpecClient == InitClient /\ [][NextClient]_vars

-----------------------------------------------------------------------------
(* Either operation *)

Init == InitRepos \/ InitBus

Next == NextRepos \/ NextBus

Spec == Init /\ [][Next]_vars

-----------------------------------------------------------------------------
(* Properties *)

Returned == pc = "returned"

ReturnedOk == Returned /\ ret[1].ok

\* the payload the server put in its answer to request i
Served(i) == replies[i][1].json[1]

Answered(i) == i \in 1..Len(replies) /\ replies[i] # <<>>

\* the answer is one the transport reports as an error
FetchFailed(reply) ==
    ~reply.sent \/ IsErrorStatus(reply.status) \/ ~reply.readable \/ reply.json = <<>>

RECURSIVE ServedLength(_)
\* the number of items the server put on pages 1..n together
ServedLength(n) == IF n = 0 THEN 0 ELSE ServedLength(n - 1) + Len(Served(n))

\* C1: a successful get_repos returns the pages as the server served them, in
\* page-number order whatever the order of the answers, followed by the first
\* last_page items of the page after the full pages.
C1_PagesInPageOrder ==
    (call = "get_repos" /\ ReturnedOk) =>
        LET items == ret[1].val
        IN /\ Len(items) = ServedLength(full_pages) + last_page
           /\ \A p \in 1..full_pages : \A k \in 1..Len(Served(p)) :
                  items[ServedLength(p - 1) + k] = Served(p)[k]
           /\ \A k \in 1..last_page :
                  items[ServedLength(full_pages) + k] = Served(full_pages + 1)[k]

\* C1 happens: two full pages answered out of order and a last page cut short
C1_Witness ==
    /\ call = "get_repos" /\ ReturnedOk /\ overtaken
    /\ full_pages >= 2 /\ last_page > 0
    /\ Len(Served(full_pages + 1)) > last_page

\* the outcome of the share calculation on the answer to request i
ShareOf(i) == calculate_repo_share(get_response_body(replies[i][1]))

Increasing(m, n) == {f \in [1..m -> 1..n] : \A a, b \in 1..m : a < b => f[a] < f[b]}

\* C2: the request of future i goes to the contributors endpoint of repository
\* i, slot i holds the outcome of that request whatever the order of the answers,
\* and every BusFactor returned pairs a repository's name and stars with the
\* share of its own endpoint, in input order.
C2_OutcomeFollowsInput ==
    call = "get_repos_bus_factor" =>
        /\ \A i \in 1..Len(requests) : requests[i].endpoint = repos[i].contributors_url
        /\ \A i \in 1..Len(responses) :
              (Ready(i) /\ query.users_to_consider # 0) =>
                  Answered(i) /\ responses[i][1] = ShareOf(i)
        /\ ReturnedOk =>
              \E f \in Increasing(Len(ret[1].val), Len(repos)) :
                  \A j \in 1..Len(ret[1].val) :
                      ret[1].val[j] = [repo_name |-> repos[f[j]].name,
                                       stars |-> repos[f[j]].stargazers_count,
                                       leader |-> ShareOf(f[j]).val]

\* C2 happens: answers out of order, two different repositories returned, one dropped
C2_Witness ==
    /\ call = "get_repos_bus_factor" /\ ReturnedOk /\ overtaken
    /\ Len(ret[1].val) = 2 /\ Len(repos) = 3
    /\ ret[1].val[1].repo_name # ret[1].val[2].repo_name
    /\ ret[1].val[1].leader # ret[1].val[2].leader

\* C3: a successful get_repos with count > 0 returns exactly count items.
C3_ExactCount ==
    (call = "get_repos" /\ ReturnedOk /\ query.count > 0) => Len(ret[1].val) = query.count

FailedSlots == {i \in 1..Len(responses) : Ready(i) /\ ~responses[i][1].ok}

\* C4: once a share calculation has failed, get_repos_bus_factor ends by
\* returning the error of the failing repository with the lowest index, and no list.
C4_FailureReturnsLowestError ==
    (call = "get_repos_bus_factor" /\ pc \in {"returned", "panicked"} /\ FailedSlots # {}) =>
        /\ Returned
        /\ ret[1] = Err(responses[Min(FailedSlots)][1].err)

\* C4, in the runs that return: when get_repos_bus_factor returns and some share
\* calculation failed, it returns the error of the failing repository with the
\* lowest index, as the transport produced it (an error status with the body of
\* the answer), and no list.
C4_LowestIndexError ==
    (call = "get_repos_bus_factor" /\ Returned /\ FailedSlots # {}) =>
        LET low == Min(FailedSlots)
        IN /\ ~ret[1].ok
           /\ ret[1].err = responses[low][1].err
           /\ Answered(low) =>
                 /\ FetchFailed(replies[low][1])
                 /\ IsErrorStatus(replies[low][1].status) =>
                       ret[1].err = ResponseError(replies[low][1].text)
                 /\ ~replies[low][1].sent => ret[1].err.type = "reqwest::Error"

\* C4 happens: the first repository succeeds, the next two fail differently, and
\* the answers came out of order
C4_Witness ==
    /\ call = "get_repos_bus_factor" /\ Returned /\ overtaken
    /\ Len(repos) = 3 /\ FailedSlots = {2, 3}
    /\ responses[2][1].err # responses[3][1].err
    /\ ret[1] = Err(ResponseError("rate limit"))

\* C5: once a page fetch of get_repos has failed, get_repos does not panic and
\* returns nothing but an error: never a collection.
C5_NoPartialCollection ==
    (call = "get_repos" /\ \E i \in 1..Len(replies) : Answered(i) /\ FetchFailed(replies[i][1])) =>
        /\ pc \in {"join_all", "returned"}
        /\ Returned => ~ret[1].ok
        /\ ret # <<>> => ~ret[1].ok

\* C5 happens: page 1 was served in full, page 2 failed, an error is returned
C5_Witness ==
    /\ call = "get_repos" /\ Returned /\ ~ret[1].ok
    /\ full_pages = 2
    /\ ~FetchFailed(replies[1][1]) /\ Len(Served(1)) = PAGE_LIMIT
    /\ FetchFailed(replies[2][1])

\* C6: with users_to_consider = 0 no request is ever handed to the transport;
\* every share calculation is ready at its first poll with InvalidQueryError,
\* which is what get_repos_bus_factor returns.
C6_RejectedBeforeAnyRequest ==
    (call = "get_repos_bus_factor" /\ query.users_to_consider = 0) =>
        /\ requests = <<>> /\ replies = <<>>
        /\ \A i \in 1..Len(responses) :
              /\ i <= polled <=> Ready(i)
              /\ Ready(i) => /\ ~responses[i][1].ok
                             /\ responses[i][1].err.type = "InvalidQueryError"
        /\ (Returned /\ repos # <<>>) =>
              /\ ~ret[1].ok
              /\ ret[1].err.type = "InvalidQueryError"
              /\ ret[1].err.type \notin {"reqwest::Error", "ResponseError"}

\* C6 happens: two repositories, users_to_consider = 0, the error returned
C6_Witness ==
    /\ call = "get_repos_bus_factor" /\ query.users_to_consider = 0
    /\ Len(repos) >= 2 /\ Returned /\ ~ret[1].ok
    /\ requests = <<>>

\* leader share >= threshold, on the fractions themselves
AtLeast(x, t) == x[2] > 0 /\ t[2] > 0 /\ x[1] * t[2] >= t[1] * x[2]

\* the input indices whose leader share reaches the threshold
Dominant == {i \in 1..Len(responses) : AtLeast(responses[i][1].val.bus_factor, query.bus_threshold)}

\* the k-th smallest element of a set of indices
Nth(S, k) == CHOOSE x \in S : Cardinality({y \in S : y <= x}) = k

\* C7: when every share calculation succeeded, the output is the input sequence
\* restricted to the repositories whose leader share is >= the threshold.
C7_FilteredInInputOrder ==
    (call = "get_repos_bus_factor" /\ Returned /\ FailedSlots = {}) =>
        /\ ret[1].ok
        /\ Len(ret[1].val) = Cardinality(Dominant)
        /\ \A k \in 1..Len(ret[1].val) :
              LET i == Nth(Dominant, k)
              IN ret[1].val[k] = [repo_name |-> repos[i].name,
                                  stars |-> repos[i].stargazers_count,
                                  leader |-> responses[i][1].val]

\* C7 happens: three repositories; one share equals the threshold and is kept,
\* one is below it and dropped
C7_Witness ==
    /\ call = "get_repos_bus_factor" /\ ReturnedOk /\ Len(repos) = 3
    /\ \E i \in Dominant : responses[i][1].val.bus_factor = query.bus_threshold
    /\ \E i \in 1..3 : i \notin Dominant
    /\ Len(ret[1].val) = 2

RECURSIVE SumFrom(_, _)
\* the contributions of contributors k.. of the list
SumFrom(list, k) ==
    IF k > Len(list) THEN 0 ELSE list[k].contributions + SumFrom(list, k + 1)

\* C8: for a non-empty fetched list the share calculation returns the login of
\* the first contributor and its contributions over the sum of all fetched
\* contributions; 15, 3 and 1 contributions give 15/19.
C8_FirstOverSum ==
    call = "get_repos_bus_factor" =>
        \A i \in 1..Len(replies) :
            (Answered(i) /\ ~FetchFailed(replies[i][1]) /\ Served(i) # <<>>) =>
                /\ Ready(i) /\ responses[i][1].ok
                /\ LET share == responses[i][1].val
                       list == Served(i)
                   IN /\ share.user_name = list[1].login
                      /\ share.bus_factor[1] * SumFrom(list, 1)
                            = list[1].contributions * share.bus_factor[2]
                      /\ SumFrom(list, 1) > 0 => share.bus_factor[2] > 0
                      /\ list = Contributions(ExampleCounts) => share.bus_factor = <<15, 19>>

\* C8 happens: the list 15, 3, 1 was fetched and its share calculated
C8_Witness ==
    /\ call = "get_repos_bus_factor" /\ Answered(1)
    /\ ~FetchFailed(replies[1][1]) /\ Served(1) = Contributions(ExampleCounts)
    /\ Ready(1) /\ responses[1][1].val.user_name = "user1"

\* C9: an empty contributor list is surfaced as an EmptyContributorsError value:
\* the calculation neither panics nor divides by zero.
C9_EmptyListIsAnError ==
    call = "get_repos_bus_factor" =>
        \A i \in 1..Len(replies) :
            (Answered(i) /\ ~FetchFailed(replies[i][1]) /\ Served(i) = <<>>) =>
                /\ pc # "panicked"
                /\ Ready(i) /\ ~responses[i][1].ok
                /\ responses[i][1].err.type = "EmptyContributorsError"

\* the worker count of the specification's bounded pool
W == 5

\* requests handed to the transport and not yet answered
InFlight == Len(requests) - Cardinality({i \in 1..Len(replies) : replies[i] # <<>>})

ChunkSize(n) == (n + W - 1) \div W

\* items i and j of n fall in the chunk of one worker
SameChunk(i, j, n) == (i - 1) \div ChunkSize(n) = (j - 1) \div ChunkSize(n)

PageLength(total, page, per_page) ==
    IF total <= (page - 1) * per_page THEN 0
    ELSE IF total >= page * per_page THEN per_page
    ELSE total - (page - 1) * per_page

\* the lengths of the ranking tried: up to one page more than is ever asked for
RankingLengths == 0..((MaxFullPages + 2) * PAGE_LIMIT)

\* every page answered so far is the page of one unchanging ranking of `total`
\* distinct repositories
StaticRanking(total) ==
    \A i \in 1..Len(replies) :
        (Answered(i) /\ ~FetchFailed(replies[i][1])) =>
            Len(Served(i)) = PageLength(total, requests[i].page, requests[i].per_page)

NoDuplicate(items) == \A a, b \in 1..Len(items) : items[a] = items[b] => a = b

\* C12: against a static ranking of distinct repositories the collection that
\* get_repos returns holds no repository twice, and when the ranking has at
\* least count repositories it is the first count of them in rank order.
C12_NoDuplicate ==
    (call = "get_repos" /\ ReturnedOk) =>
        \A total \in RankingLengths :
            StaticRanking(total) =>
                /\ NoDuplicate(ret[1].val)
                /\ total >= query.count => ret[1].val = [k \in 1..query.count |-> k]

\* C12 happens: a count of two full pages and a remainder, served from a
\* ranking longer than the count, comes back whole
C12_Witness ==
    /\ call = "get_repos" /\ ReturnedOk
    /\ full_pages >= 2 /\ last_page >= 2
    /\ \E total \in RankingLengths : total > query.count /\ StaticRanking(total)
    /\ Len(ret[1].val) = query.count

\* the call sent nothing, did not panic, and its only outcome is Ok(empty)
EmptyWithoutFetch ==
    /\ requests = <<>> /\ replies = <<>>
    /\ pc \in {"join_all", "returned"}
    /\ Returned => ret = <<Ok(<<>>)>>

\* C13: get_repos with count 0 returns Ok with an empty collection and sends
\* no request; get_repos_bus_factor over no repositories returns Ok with an
\* empty collection and sends no request.
C13_EmptyInput ==
    /\ (call = "get_repos" /\ query.count = 0) =>
          EmptyWithoutFetch /\ (~Returned => ENABLED JoinPages)
    /\ (call = "get_repos_bus_factor" /\ repos = <<>>) =>
          EmptyWithoutFetch /\ (~Returned => ENABLED JoinShares)

\* C13 happens: get_repos with count 0 has returned
C13_Witness ==
    /\ call = "get_repos" /\ query.count = 0
    /\ Returned /\ ret = <<Ok(<<>>)>> /\ requests = <<>>

\* the same for get_repos_bus_factor over no repositories
C13_WitnessBus ==
    /\ call = "get_repos_bus_factor" /\ repos = <<>>
    /\ Returned /\ ret = <<Ok(<<>>)>> /\ requests = <<>>

\* the calculation of item i has run to its end and left its outcome in slot i
Completed(i) == Ready(i) /\ (query.users_to_consider # 0 => Answered(i))

C14_WitnessEnd ==
    /\ call = "get_repos_bus_factor" /\ Returned /\ overtaken
    /\ FailedSlots = {Len(repos)} /\ Len(repos) >= 2
    /\ \A i \in 1..Len(repos) : Completed(i)
    /\ ~ret[1].ok

\* Every transport call that was issued returns and the executor keeps polling:
\* each step that can be taken is eventually taken.
FairSpec == Spec /\ WF_vars(Next)

\* C15: the operation ends by returning a result, and every request it sent
\* was answered: none is dropped or left waiting.
C15_ReturnsWithAllAnswered ==
    (pc = "returned" \/ ENABLED Next) /\
    (~ENABLED Next => \A i \in 1..Len(requests) : Answered(i))

\* C15 as a temporal property: the operation eventually returns
C15_EventuallyReturns == <>(pc = "returned")

\* what does hold under FairSpec: every run ends, by a return or by a panic
C15_EventuallyEnds == <>(pc \in {"returned", "panicked"})

\* a share calculation panicked while the request of another item was still
\* out: that request is dropped with its future
C15_DroppedRequest ==
    /\ call = "get_repos_bus_factor" /\ pc = "panicked"
    /\ \E i \in 1..Len(requests) : ~Answered(i)

\* the requests sent for full pages: the first full_pages entries of the log
FullPageRequests == SubSeq(requests, 1, Min({Len(requests), full_pages}))

\* C16: the requests for full pages are those of pages 1..full_pages in page
\* order, each with per_page = PAGE_LIMIT and each sent once; once every
\* future was polled all of them are out, and no answer, failed or not, makes
\* get_repos send a request for a page again.
C16_FullPagesOnce ==
    call = "get_repos" =>
        /\ \A i \in 1..Len(FullPageRequests) :
              /\ FullPageRequests[i].page = i
              /\ FullPageRequests[i].per_page = PAGE_LIMIT
              /\ FullPageRequests[i].language = query.language
        /\ Len(FullPageRequests) = polled
        /\ Len(requests) <= full_pages + 1
        /\ \A i, j \in 1..Len(requests) : requests[i].page = requests[j].page => i = j
        /\ (Returned \/ pc = "panicked") => Len(FullPageRequests) = full_pages

\* C16 happens: two full pages were asked for, one failed, and get_repos
\* returned the error having sent the two requests only
C16_Witness ==
    /\ call = "get_repos" /\ Returned /\ ~ret[1].ok
    /\ full_pages = 2 /\ Len(requests) = 2
    /\ \E i \in 1..2 : FetchFailed(replies[i][1])

\* the requests sent for the page after the full pages
LastPageRequests == {i \in 1..Len(requests) : requests[i].page = full_pages + 1}

\* get_repos has ended, by a return or by a panic
Ended == pc \in {"returned", "panicked"}

\* the request for the page after the full pages is the one the code formats
LastPageRequestShape ==
    \A i \in LastPageRequests :
        /\ i = Len(requests)
        /\ requests[i].language = query.language
        /\ requests[i].per_page = (IF full_pages > 0 THEN PAGE_LIMIT ELSE last_page)

\* C17: if the remainder is positive get_repos sends exactly one request for
\* page full_pages + 1, with per_page = PAGE_LIMIT when there are full pages
\* and per_page = remainder when there are none; if the remainder is 0 it
\* sends none.
C17_ExactlyOneLastPage ==
    (call = "get_repos" /\ Ended) =>
        /\ LastPageRequestShape
        /\ Cardinality(LastPageRequests) = (IF last_page > 0 THEN 1 ELSE 0)

\* C17 as amended: the request for page full_pages + 1 is sent once, and only
\* if the remainder is positive and every full page was fetched successfully;
\* per_page is as stated.  After a failed full page it is not sent.
C17_OneLastPageAfterSuccess ==
    call = "get_repos" =>
        /\ LastPageRequestShape
        /\ Cardinality(LastPageRequests) <= 1
        /\ LastPageRequests # {} =>
              /\ last_page > 0
              /\ \A p \in 1..full_pages : Answered(p) /\ ~FetchFailed(replies[p][1])
        /\ (Ended /\ last_page > 0
              /\ \A p \in 1..full_pages : ~FetchFailed(replies[p][1])) =>
              Cardinality(LastPageRequests) = 1

\* C17 happens: after one full page that was fetched successfully the page
\* after it was asked for with per_page = PAGE_LIMIT, and get_repos ended
C17_Witness ==
    /\ call = "get_repos" /\ Ended
    /\ full_pages = 1 /\ last_page > 0
    /\ LastPageRequests = {2} /\ requests[2].per_page = PAGE_LIMIT

\* and with no full page the remainder itself is asked for
C17_WitnessNoFullPage ==
    /\ call = "get_repos" /\ Ended
    /\ full_pages = 0 /\ last_page = 2
    /\ LastPageRequests = {1} /\ requests[1].per_page = 2

\* the full pages whose request is out and not yet answered
PagesInFlight == {p \in 1..Min({Len(requests), full_pages}) : ~Answered(p)}

\* C18: the full pages are fetched concurrently: no page is answered before
\* the request of every full page is out, and whichever pages are still in
\* flight, any one of them can be the next to be answered, so that they can
\* complete in every order.
C18_NoOrderBetweenPages ==
    (call = "get_repos" /\ pc = "join_all") =>
        /\ (\E p \in 1..full_pages : Answered(p)) => Len(requests) = full_pages
        /\ polled = full_pages => \A p \in PagesInFlight : ENABLED PageReply(p)

\* C18 happens: every full page is in flight at once
C18_Witness ==
    /\ call = "get_repos" /\ pc = "join_all"
    /\ full_pages >= 2 /\ PagesInFlight = 1..full_pages

\* and a later page completes before an earlier one
C18_WitnessReversed ==
    /\ call = "get_repos" /\ pc = "join_all"
    /\ full_pages >= 2 /\ Answered(full_pages) /\ ~Answered(1)

\* C19: get_pages(count) is the pair (full_pages, remainder) with
\* 0 <= remainder < PAGE_LIMIT and full_pages * PAGE_LIMIT + remainder = count,
\* that is (count / 100, count % 100); 50 gives (0, 50), 101 gives (1, 1),
\* 2531 gives (25, 31) and 0 gives (0, 0).
C19_GetPages ==
    (call = "get_pages" /\ Returned) =>
        LET pages == ret[1]
        IN /\ pages[1] >= 0
           /\ pages[2] >= 0 /\ pages[2] < 100
           /\ pages[1] * 100 + pages[2] = query.count
           /\ query.count = 50 => pages = <<0, 50>>
           /\ query.count = 101 => pages = <<1, 1>>
           /\ query.count = 2531 => pages = <<25, 31>>
           /\ query.count = 0 => pages = <<0, 0>>

\* C19 happens: get_pages was applied to 2531
C19_Witness == call = "get_pages" /\ Returned /\ query.count = 2531 /\ ret = <<<<25, 31>>>>

\* the outcome is the error of api_errors.rs with the body text as details
IsResponseError(out, text) ==
    ~out.ok /\ out.err.type = "ResponseError" /\ out.err.details = text

\* C20: an answer with a 4xx or 5xx status always gives a ResponseError
\* carrying the body text and never a payload; a transport failure gives an
\* error that is not a ResponseError; only an answer with a success status
\* gives a payload.
C20_Classified ==
    (call = "get_response_body" /\ Returned) =>
        LET reply == replies[1][1]
            out == ret[1]
        IN /\ (reply.sent /\ IsErrorStatus(reply.status)) => IsResponseError(out, reply.text)
           /\ ~reply.sent => (~out.ok /\ out.err.type # "ResponseError")
           /\ out.ok => (reply.sent /\ reply.status \in 200..299)

\* C20 as amended: an answer with a 4xx or 5xx status never gives a payload; it
\* gives a ResponseError carrying the body text when the body can be read and
\* the error of the failed read when it cannot.  A failed send gives an error
\* that is not a ResponseError.  A payload comes only from an answer whose
\* status is not 4xx or 5xx and whose body deserializes, and is that body.
C20_ClassifiedReadable ==
    (call = "get_response_body" /\ Returned) =>
        LET reply == replies[1][1]
            out == ret[1]
        IN /\ (reply.sent /\ IsErrorStatus(reply.status)) =>
                 /\ ~out.ok
                 /\ reply.readable => IsResponseError(out, reply.text)
                 /\ ~reply.readable => out.err.type = "reqwest::Error"
           /\ ~reply.sent => (~out.ok /\ out.err.type = "reqwest::Error")
           /\ out.ok =>
                 /\ reply.sent /\ ~IsErrorStatus(reply.status)
                 /\ reply.readable /\ reply.json = <<out.val>>
           /\ (~out.ok /\ out.err.type = "ResponseError") =>
                 (reply.sent /\ IsErrorStatus(reply.status))

\* C20 happens: a 403 whose body is valid JSON for T gave the ResponseError
\* with the body text, not the payload
C20_Witness ==
    /\ call = "get_response_body" /\ Returned
    /\ replies[1][1].status = 403 /\ replies[1][1].json # <<>> /\ replies[1][1].text # ""
    /\ IsResponseError(ret[1], replies[1][1].text)

\* a 500 whose body could not be read gave the error of the read
C20_UnreadableErrorBody ==
    /\ call = "get_response_body" /\ Returned
    /\ replies[1][1].status = 500 /\ ~replies[1][1].readable
    /\ ~ret[1].ok /\ ret[1].err.type = "reqwest::Error"

\* C21: the request for the page after the full pages is sent only after every
\* full page was answered, and answered successfully: it is never out together
\* with the request of a full page, and once a full page has failed it is
\* never sent.
C21_LastPageAfterFullPages ==
    call = "get_repos" =>
        /\ LastPageRequests # {} =>
              /\ PagesInFlight = {}
              /\ Len(requests) = full_pages + 1
              /\ \A p \in 1..full_pages : Answered(p) /\ responses[p][1].ok
        /\ (\E p \in 1..full_pages : Answered(p) /\ FetchFailed(replies[p][1])) =>
              LastPageRequests = {}
        /\ pc = "last_page" => LastPageRequests = {Len(requests)}

\* C21 happens: with a remainder to fetch, a full page failed and get_repos
\* returned without asking for the page after the full pages
C21_Witness ==
    /\ call = "get_repos" /\ Returned /\ last_page > 0 /\ full_pages = 2
    /\ FetchFailed(replies[2][1]) /\ ~FetchFailed(replies[1][1])
    /\ LastPageRequests = {}

\* and after two successful full pages the page after them is in flight alone
C21_WitnessInFlight ==
    /\ call = "get_repos" /\ pc = "last_page" /\ full_pages = 2
    /\ LastPageRequests = {3} /\ ~Answered(3) /\ Answered(1) /\ Answered(2)

\* the full pages whose fetch failed
FailedPages == {p \in 1..full_pages : Answered(p) /\ FetchFailed(replies[p][1])}

\* C22: when fetches of full pages fail, get_repos returns the error of the
\* failed page with the lowest page number, whatever the order of the answers,
\* and returns it only after every full page was answered.
C22_LowestPageError ==
    (call = "get_repos" /\ FailedPages # {}) =>
        /\ Ended => Returned
        /\ Returned =>
              /\ \A p \in 1..full_pages : Answered(p)
              /\ ret = <<get_response_body(replies[Min(FailedPages)][1])>>
              /\ ~ret[1].ok
        /\ (\E p \in 1..full_pages : ~Answered(p)) => ret = <<>>

\* C22 happens: both full pages failed with different errors, page 2 before
\* page 1, and the error of page 1 was returned
C22_Witness ==
    /\ call = "get_repos" /\ Returned /\ overtaken
    /\ FailedPages = {1, 2}
    /\ get_response_body(replies[1][1]) # get_response_body(replies[2][1])
    /\ ret = <<get_response_body(replies[1][1])>>

\* C23: users_to_consider is validated by each share calculation, not once for
\* the query: with users_to_consider = 0 get_repos_bus_factor over no
\* repositories returns Ok with an empty collection, and over some
\* repositories it returns the validation error; in both cases it sends no
\* request at all.
C23_ValidatedPerRepository ==
    (call = "get_repos_bus_factor" /\ query.users_to_consider = 0) =>
        /\ requests = <<>> /\ replies = <<>>
        /\ pc \in {"join_all", "returned"}
        /\ polled = Len(repos) => ENABLED JoinShares \/ Returned
        /\ Returned =>
              ret = IF repos = <<>>
                    THEN <<Ok(<<>>)>>
                    ELSE <<Err(InvalidQueryError(
                             "Number of users to consider must be greater than 0."))>>

\* C23 happens: three repositories, users_to_consider = 0, the validation error
\* returned and nothing sent
C23_Witness ==
    /\ call = "get_repos_bus_factor" /\ query.users_to_consider = 0
    /\ Len(repos) = 3 /\ Returned /\ requests = <<>>
    /\ ~ret[1].ok /\ ret[1].err.type = "InvalidQueryError"

\* and no repositories, users_to_consider = 0: Ok with an empty collection
C23_WitnessEmpty ==
    /\ call = "get_repos_bus_factor" /\ query.users_to_consider = 0
    /\ repos = <<>> /\ Returned /\ ret = <<Ok(<<>>)>> /\ requests = <<>>

\* the page after the full pages was served, with fewer items than the remainder
ShortLastPage ==
    /\ LastPageRequests # {} /\ Answered(Len(requests))
    /\ ~FetchFailed(replies[Len(requests)][1])
    /\ Len(Served(Len(requests))) < last_page

\* C24: when the page after the full pages is served with fewer items than the
\* remainder, get_repos returns neither a collection nor an error: the slice
\* is out of range and the call panics.  So every collection returned holds
\* `remainder` items of that page.
C24_ShortLastPagePanics ==
    call = "get_repos" =>
        /\ ShortLastPage => (pc = "panicked" /\ ret = <<>>)
        /\ pc = "panicked" => ShortLastPage
        /\ (ReturnedOk /\ last_page > 0) =>
              /\ Len(Served(full_pages + 1)) >= last_page
              /\ Len(ret[1].val) >= last_page
              /\ \A k \in 1..last_page :
                    ret[1].val[Len(ret[1].val) - last_page + k] = Served(full_pages + 1)[k]

\* C24 happens: after a full page the next page came with one item where two
\* were needed, and get_repos panicked
C24_Witness ==
    /\ call = "get_repos" /\ pc = "panicked" /\ ret = <<>>
    /\ full_pages = 1 /\ last_page = 2
    /\ ~FetchFailed(replies[2][1]) /\ Len(Served(2)) = 1

\* a share that is a number between 0 and 1
InUnitInterval(x) == x # NaN /\ x[2] > 0 /\ x[1] >= 0 /\ x[1] <= x[2]

\* C25: every UserShare returned for a non-empty contributor list, lists of
\* zeros included, has a share that is a number in [0, 1]: the sum of the
\* fetched contributions is positive and at least the leader's contributions.
C25_ShareInUnitInterval ==
    call = "get_repos_bus_factor" =>
        \A i \in 1..Len(replies) :
            (Answered(i) /\ ~FetchFailed(replies[i][1]) /\ Served(i) # <<>>
                /\ Ready(i) /\ responses[i][1].ok) =>
                /\ SumFrom(Served(i), 1) > 0
                /\ SumFrom(Served(i), 1) >= Served(i)[1].contributions
                /\ InUnitInterval(responses[i][1].val.bus_factor)

\* what holds for the lists with a positive sum: the share is in [0, 1]
C25_PositiveSumInUnitInterval ==
    call = "get_repos_bus_factor" =>
        \A i \in 1..Len(replies) :
            (Answered(i) /\ ~FetchFailed(replies[i][1]) /\ Served(i) # <<>>
                /\ Ready(i) /\ responses[i][1].ok /\ SumFrom(Served(i), 1) > 0) =>
                InUnitInterval(responses[i][1].val.bus_factor)

\* a list of zeros was fetched and a UserShare whose share is NaN was returned
C25_NaNShare ==
    /\ call = "get_repos_bus_factor" /\ Answered(1) /\ ~FetchFailed(replies[1][1])
    /\ Served(1) # <<>> /\ SumFrom(Served(1), 1) = 0
    /\ Ready(1) /\ responses[1][1].ok /\ responses[1][1].val.bus_factor = NaN

====
